---------------------------- MODULE Spec2Model ----------------------------
(***************************************************************************)
(* Model of WorldMap (src/src/WorldMap.cpp): the registry of Maps, its     *)
(* Position -> Map dictionary, the region queries and the time-sliced      *)
(* aging sweep.                                                            *)
(*                                                                         *)
(* A Map is an object with immutable bounds; it is referred to by its      *)
(* identity (a shared_ptr in the source, an element of MapIds here).  Two  *)
(* different Maps may have the same bounds.                                *)
(***************************************************************************)
EXTENDS Integers, Sequences, FiniteSets, TLC

\* ----------------------------------------------------------------- bounds
NumMaps == 3          \* number of Map objects that exist
FarX    == 100        \* x coordinate of a Map far away from the others
MaxExports == 1       \* number of exportTo calls in a run
MaxLen  == 3          \* longest key and value of an item's data entry

\* ------------------------------------------------------ program constants
CharBits == 8         \* width of the char margins of findAllMapsInRangeOf
Int16Bits == 16       \* width of minX and minY in exportTo
UShortBits == 16      \* width of the map count saveToDisk writes
MnameSize == 200      \* char mname[200] of saveToDisk
FieldWidth == 6       \* %6d in the name of a Map's save file

MapIds == 1 .. NumMaps
NoMap  == 0           \* the empty map_t (null shared_ptr)
OutOfRange == -1      \* std::out_of_range raised by world_map.at

\* The bounds a Map can have.  Shapes 1 and 2 overlap in the cell (1,0,0),
\* shape 3 lies on another level, shape 4 lies far to the east.
Shapes ==
  << [Z_Level |-> 0, Min_X |-> 0,    Max_X |-> 1,    Min_Y |-> 0, Max_Y |-> 1,
      Width |-> 2, Height |-> 2],
     [Z_Level |-> 0, Min_X |-> 1,    Max_X |-> 2,    Min_Y |-> 0, Max_Y |-> 0,
      Width |-> 2, Height |-> 1],
     [Z_Level |-> 1, Min_X |-> -1,   Max_X |-> 0,    Min_Y |-> 0, Max_Y |-> 0,
      Width |-> 2, Height |-> 1],
     [Z_Level |-> 0, Min_X |-> FarX, Max_X |-> FarX, Min_Y |-> 0, Max_Y |-> 0,
      Width |-> 1, Height |-> 1] >>

\* Positions <<x, y, z>> used as query inputs: every cell of every shape and
\* a margin of one cell around it.
QueryXs  == (-2 .. 3) \cup {FarX - 1, FarX, FarX + 1}
QueryYs  == -1 .. 2
QueryZs  == 0 .. 1
QueryPos == { <<x, y, z>> : x \in QueryXs, y \in QueryYs, z \in QueryZs }

VARIABLES
  mapObj,      \* the Map objects: MapIds -> bounds (immutable)
  maps,        \* WorldMap::maps, the sequence of registered Maps
  world_map,   \* WorldMap::world_map, a partial function Position -> Map
  ageIndex,    \* WorldMap::ageIndex, the cursor of the aging sweep
  ret,         \* the last call: operation, argument and return value
  sweepLog,    \* history: the age() invocations of the sweep in progress on
               \* the registered Maps, in order; after a call that returned
               \* true, those of the sweep it completed
  sweepCalls,  \* history: the calls of that sweep that aged at least one Map
  prevTrue,    \* history: the call before the last one was a call of
               \* allMapsAged that returned true
  grown,       \* history: a Map was inserted during the sweep in progress
  disk,        \* the files of the export directory: name -> content
  exportLog,   \* the streams the last exportTo opened and wrote, in order
  exports,     \* the number of exportTo calls so far
  initfile,    \* the file {prefix}_initmaps
  saveLog,     \* what the last saveToDisk did
  itemKey,     \* key of a data entry of an exported item
  itemValue,   \* value of that entry
  itemsf       \* what the item exporter wrote for the entry

ioVars == <<disk, exportLog, exports, initfile, saveLog,
            itemKey, itemValue, itemsf>>

vars == <<mapObj, maps, world_map, ageIndex, ret, sweepLog, sweepCalls,
          prevTrue, grown, ioVars>>

ReturnedTrue == ret.op = "allMapsAged" /\ ret.val = TRUE

Range(s) == { s[i] : i \in DOMAIN s }

\* ------------------------------------------------------------------- Map
\* Map::intersects(upperleft, downright, level): the bounds of m meet the
\* rectangle on that level.  upperleft and downright are <<x, y>>.
intersects(m, upperleft, downright, level) ==
  /\ mapObj[m].Z_Level = level
  /\ mapObj[m].Max_X >= upperleft[1]
  /\ mapObj[m].Min_X <= downright[1]
  /\ mapObj[m].Max_Y >= upperleft[2]
  /\ mapObj[m].Min_Y <= downright[2]

\* ------------------------------------------------------------- InsertMap
\* The scan of InsertMap for the same reference.
IsPresentNever(newMap) == FALSE

IsPresent(newMap) == \E i \in 1 .. Len(maps) : maps[i] = newMap

\* The positions the two loops of InsertMap visit.
CellsPastEnd(m) ==
  { <<x, y, mapObj[m].Z_Level>> :
      x \in mapObj[m].Min_X .. (mapObj[m].Max_X + 1),
      y \in mapObj[m].Min_Y .. mapObj[m].Max_Y }

CellsExclusive(m) ==
  { <<x, y, mapObj[m].Z_Level>> :
      x \in mapObj[m].Min_X .. (mapObj[m].Max_X - 1),
      y \in mapObj[m].Min_Y .. mapObj[m].Max_Y }

Cells(m) ==
  { <<x, y, mapObj[m].Z_Level>> :
      x \in mapObj[m].Min_X .. mapObj[m].Max_X,
      y \in mapObj[m].Min_Y .. mapObj[m].Max_Y }

\* world_map[p] = newMap for every visited position: operator[] creates the
\* entry or overwrites it.
WriteCellsIfAbsent(wm, m) ==
  [p \in (DOMAIN wm) \cup Cells(m) |-> IF p \in DOMAIN wm THEN wm[p] ELSE m]

WriteCells(wm, m) ==
  [p \in (DOMAIN wm) \cup Cells(m) |-> IF p \in Cells(m) THEN m ELSE wm[p]]

Result(op, arg, val) == [op |-> op, arg |-> arg, val |-> val]

\* maps.push_back(newMap)
PushMapFront(seq, newMap) == <<newMap>> \o seq

PushMap(seq, newMap) == Append(seq, newMap)

\* The history of a completed sweep ends when the registry changes; that of
\* a sweep in progress (ageIndex # 0) goes on.
LogAfterInsert(log, empty) == IF ageIndex = 0 THEN empty ELSE log

InsertMap(newMap) ==
  /\ prevTrue' = ReturnedTrue
  /\ IF newMap # NoMap
       THEN IF IsPresent(newMap)
              THEN /\ ret' = Result("InsertMap", newMap, FALSE)
                   /\ UNCHANGED <<mapObj, maps, world_map, ageIndex,
                                  sweepLog, sweepCalls, grown>>
              ELSE /\ maps' = PushMap(maps, newMap)
                   /\ world_map' = WriteCells(world_map, newMap)
                   /\ ret' = Result("InsertMap", newMap, TRUE)
                   /\ sweepLog' = LogAfterInsert(sweepLog, << >>)
                   /\ sweepCalls' = LogAfterInsert(sweepCalls, 0)
                   /\ grown' = (ageIndex # 0)
                   /\ UNCHANGED <<mapObj, ageIndex>>
       ELSE /\ ret' = Result("InsertMap", newMap, FALSE)
            /\ UNCHANGED <<mapObj, maps, world_map, ageIndex,
                           sweepLog, sweepCalls, grown>>
  /\ UNCHANGED ioVars

\* ----------------------------------------------------------------- clear
EmptyIndex == [p \in {} |-> NoMap]

\* maps.clear(); world_map.clear(); ageIndex is not assigned.  No Map is
\* registered afterwards, so the history of age() on registered Maps is empty.
\* world_map.clear()
ClearedIndexKept(wm) == wm

ClearedIndex(wm) == EmptyIndex

clear ==
  /\ maps' = << >>
  /\ world_map' = ClearedIndex(world_map)
  /\ ret' = Result("clear", NoMap, TRUE)
  /\ sweepLog' = << >>
  /\ sweepCalls' = 0
  /\ grown' = FALSE
  /\ prevTrue' = ReturnedTrue
  /\ UNCHANGED <<mapObj, ageIndex, ioVars>>

\* --------------------------------------------------------------- queries
\* world_map.at(pos): the entry, or std::out_of_range when there is none.
At(pos) == IF pos \in DOMAIN world_map THEN world_map[pos] ELSE OutOfRange

\* findMapForPos catches std::out_of_range and returns the empty map_t.
findMapForPosUncaught(pos) == At(pos)

findMapForPos(pos) ==
  LET r == At(pos) IN IF r = OutOfRange THEN NoMap ELSE r

\* downright of mapInRangeOf: MAP_POSITION(x + dx - 1, y + dy - 1).
DownRightPastEnd(upperleft, dx, dy) == <<upperleft[1] + dx, upperleft[2] + dy>>

DownRight(upperleft, dx, dy) ==
  <<upperleft[1] + dx - 1, upperleft[2] + dy - 1>>

mapInRangeOf(upperleft, dx, dy) ==
  \E i \in 1 .. Len(maps) :
     intersects(maps[i], <<upperleft[1], upperleft[2]>>,
                DownRight(upperleft, dx, dy), upperleft[3])

\* result.push_back(map)
PushFront(result, m) == <<m>> \o result

PushBack(result, m) == Append(result, m)

\* The loop of findAllMapsInRangeOf over maps, from index i on.
RECURSIVE ScanMaps(_, _, _, _, _)
ScanMaps(i, result, upperleft, downright, level) ==
  IF i > Len(maps)
    THEN result
    ELSE ScanMaps(i + 1,
                  IF intersects(maps[i], upperleft, downright, level)
                    THEN PushBack(result, maps[i])
                    ELSE result,
                  upperleft, downright, level)

findAllMapsInRangeOf(rnorth, rsouth, reast, rwest, pos) ==
  ScanMaps(1, << >>,
           <<pos[1] - rwest, pos[2] - rnorth>>,
           <<pos[1] + reast, pos[2] + rsouth>>,
           pos[3])

\* An integer passed for one of the char parameters rnorth, rsouth, reast,
\* rwest keeps its low CharBits bits (char is signed here; the values used
\* below convert the same way when char is unsigned, except negative ones).
ToChar(n) == ((n + 2^(CharBits - 1)) % 2^CharBits) - 2^(CharBits - 1)

\* ----------------------------------------------------------- allMapsAged
\* The Maps one call ages when the clock lets the loop run k times:
\* maps[ageIndex++]->age(), k times.
AgedBatchSkipping(k) ==
  [j \in 1 .. k |-> maps[IF ageIndex + j < Len(maps) THEN ageIndex + j + 1
                                                     ELSE ageIndex + j]]

AgedBatch(k) == [j \in 1 .. k |-> maps[ageIndex + j]]

\* if (ageIndex < maps.size()) return false, for the cursor idx after the loop
MapsRemainOffByOne(idx) == idx + 1 < Len(maps)

MapsRemainInclusive(idx) == idx <= Len(maps)

MapsRemain(idx) == idx < Len(maps)

\* ageIndex = 0 before return true
IndexAfterSweepKept(idx) == idx

IndexAfterSweep(idx) == 0

\* The cursor after a call that returns false.
IndexAfterSliceRewound(idx) == IF idx > 1 THEN idx - 1 ELSE idx

IndexAfterSlice(idx) == idx

\* The numbers of Maps the loop of one call can age: the clock may stop it
\* before any Map (the thread can lose the 10 ms before the first test).
Slices == IF ageIndex < Len(maps) THEN 0 .. (Len(maps) - ageIndex) ELSE {0}

allMapsAged(k) ==
  /\ k \in Slices
  /\ LET idx == ageIndex + k
     IN /\ sweepLog' = (IF ageIndex = 0 THEN << >> ELSE sweepLog) \o AgedBatch(k)
        /\ sweepCalls' = (IF ageIndex = 0 THEN 0 ELSE sweepCalls)
                            + (IF k > 0 THEN 1 ELSE 0)
        /\ IF MapsRemain(idx)
             THEN /\ ageIndex' = IndexAfterSlice(idx)
                  /\ ret' = Result("allMapsAged", NoMap, FALSE)
             ELSE /\ ageIndex' = IndexAfterSweep(idx)
                  /\ ret' = Result("allMapsAged", NoMap, TRUE)
  /\ grown' = (ageIndex # 0 /\ grown)
  /\ prevTrue' = ReturnedTrue
  /\ UNCHANGED <<mapObj, maps, world_map, ioVars>>

\* ------------------------------------------------------------- files
NoFile == "no file"

\* No exportTo, saveToDisk or item export has run.
IoInit ==
  /\ disk = [n \in {} |-> NoFile]
  /\ exportLog = << >>
  /\ exports = 0
  /\ initfile = NoFile
  /\ saveLog = << >>
  /\ itemKey = << >>
  /\ itemValue = << >>
  /\ itemsf = << >>

\* -------------------------------------------------------------- exportTo
\* int16_t minX = GetMinX()
ToInt16(n) == ((n + 2^(Int16Bits - 1)) % 2^Int16Bits) - 2^(Int16Bits - 1)

\* The three streams of a Map, in the order exportTo opens them.
Kinds == <<"tiles", "items", "warps">>
KindSet == Range(Kinds)

\* filebase + kind + ".txt": "e_" minX "_" minY "_" Z_Level "." in exportDir.
\* The decimal numbers and the separators make the name a one-to-one
\* function of this tuple.
FileName(m, kind) ==
  <<ToInt16(mapObj[m].Min_X), ToInt16(mapObj[m].Min_Y), mapObj[m].Z_Level,
    kind>>

\* A stream opened for writing leaves an empty file until it is written.
EmptyFile == [kind |-> "empty"]

\* What exportTo writes to one stream of Map m: the header of the tiles
\* file, and the lines of the cells of m (the fields of m are the Map's own).
Content(m, kind) ==
  IF kind = "tiles"
    THEN [kind |-> kind, V |-> 2, L |-> mapObj[m].Z_Level,
          X |-> ToInt16(mapObj[m].Min_X), Y |-> ToInt16(mapObj[m].Min_Y),
          W |-> mapObj[m].Width, H |-> mapObj[m].Height, cells |-> m]
    ELSE [kind |-> kind, cells |-> m]

\* !fieldsf.good() || !itemsf.good() || !warpsf.good(), for the set of the
\* streams that opened.
StreamsFailedFirstOnly(good) == "tiles" \notin good

StreamsFailed(good) == good # KindSet

\* Opening the streams of Map m creates or truncates the files that open.
OpenStreams(d, m, good) ==
  [n \in DOMAIN d \cup { FileName(m, kind) : kind \in good } |->
     IF \E kind \in good : n = FileName(m, kind) THEN EmptyFile ELSE d[n]]

\* Lines 132-186: the three files of Map m after the cells are written and
\* the streams closed (a stream that did not open takes no output).
WriteStreams(d, m, good) ==
  [n \in DOMAIN d |->
     IF \E kind \in good : n = FileName(m, kind)
       THEN Content(m, (CHOOSE kind \in good : n = FileName(m, kind)))
       ELSE d[n]]

OpenEvents(i, good) ==
  [j \in 1 .. Len(Kinds) |->
     [ev |-> "open", i |-> i, kind |-> Kinds[j], good |-> Kinds[j] \in good]]

WriteEvents(i, good) ==
  SelectSeq([j \in 1 .. Len(Kinds) |->
               [ev |-> "write", i |-> i, kind |-> Kinds[j],
                good |-> Kinds[j] \in good]],
            LAMBDA e : e.good)

\* The loop of exportTo from the i-th Map on; canOpen[i] is the set of the
\* streams of the i-th Map that the file system lets open.
RECURSIVE ExportMaps(_, _, _, _)
ExportMaps(i, d, log, canOpen) ==
  IF i > Len(maps)
    THEN [disk |-> d, log |-> log, val |-> TRUE]
    ELSE LET opened == OpenStreams(d, maps[i], canOpen[i])
             events == log \o OpenEvents(i, canOpen[i])
         IN  IF StreamsFailed(canOpen[i])
               THEN [disk |-> opened, log |-> events, val |-> FALSE]
               ELSE ExportMaps(i + 1,
                               WriteStreams(opened, maps[i], canOpen[i]),
                               events \o WriteEvents(i, canOpen[i]),
                               canOpen)

exportTo(canOpen) ==
  /\ exports < MaxExports
  /\ LET r == ExportMaps(1, disk, << >>, canOpen)
     IN /\ disk' = r.disk
        /\ exportLog' = r.log
        /\ ret' = Result("exportTo", NoMap, r.val)
  /\ exports' = exports + 1
  /\ UNCHANGED <<mapObj, maps, world_map, ageIndex, sweepLog, sweepCalls,
                 prevTrue, grown, initfile, saveLog, itemKey, itemValue,
                 itemsf>>

\* ------------------------------------------------------------ saveToDisk
\* unsigned short int size = maps.size()
ToUShort(n) == n % 2^UShortBits

\* The number of characters %6d prints for n.
RECURSIVE Digits(_)
Digits(n) ==
  IF n < 0 THEN 1 + Digits(-n)
  ELSE IF n < 10 THEN 1 ELSE 1 + Digits(n \div 10)

Printed(n) == IF Digits(n) > FieldWidth THEN Digits(n) ELSE FieldWidth

\* The characters sprintf(mname, "%s_%6d_%6d_%6d", prefix, Z_Level, Min_X,
\* Min_Y) stores, the terminating 0 included, for a prefix of prefixLen
\* characters.
MnameLength(prefixLen, m) ==
  prefixLen + 1 + Printed(mapObj[m].Z_Level) + 1 + Printed(mapObj[m].Min_X)
            + 1 + Printed(mapObj[m].Min_Y) + 1

\* sprintf writes past the end of mname: undefined behaviour.
Overflows(prefixLen, m) == MnameLength(prefixLen, m) > MnameSize

\* mapinitfile.good() after the constructor, when the file system lets the
\* file be created (canCreate) or not.
StreamGoodAlways(canCreate) == TRUE

StreamGood(canCreate) == canCreate

\* The five fields written for a Map.
InitRecord(m) ==
  [Z_Level |-> mapObj[m].Z_Level, Min_X |-> mapObj[m].Min_X,
   Min_Y |-> mapObj[m].Min_Y, Width |-> mapObj[m].Width,
   Height |-> mapObj[m].Height]

\* (*mapI)->Save(mname), mname as sprintf left it.
SaveCall(prefixLen, m, garbled) ==
  [map |-> m,
   mname |-> IF garbled THEN <<"garbled">>
             ELSE <<prefixLen, mapObj[m].Z_Level, mapObj[m].Min_X,
                    mapObj[m].Min_Y>>]

\* What the build can do once sprintf has written past mname: nothing
\* visible, a name that is not the one formatted, or the end of the process.
Outcomes == {"as written", "garbled", "crash"}

\* The first Map whose name does not fit mname, 0 if all fit.
FirstOverflow(prefixLen) ==
  LET O == { i \in 1 .. Len(maps) : Overflows(prefixLen, maps[i]) }
  IN  IF O = {} THEN 0 ELSE CHOOSE i \in O : \A j \in O : i <= j

saveToDisk(canCreate, prefixLen, outcome) ==
  /\ saveLog # << >> => saveLog.outcome # "crash"
  /\ IF ~StreamGood(canCreate)
       THEN /\ saveLog' = [canCreate |-> canCreate, good |-> FALSE,
                           prefixLen |-> prefixLen,
                           error |-> "Could not create initmaps!",
                           written |-> << >>, saves |-> << >>,
                           outcome |-> "as written"]
            /\ UNCHANGED initfile
       ELSE LET o == FirstOverflow(prefixLen)
                ub == IF o = 0 THEN "as written" ELSE outcome
                \* the Maps whose record is written and whose Save is called
                recs == IF ub = "crash" THEN o ELSE Len(maps)
                svs == IF ub = "crash" THEN o - 1 ELSE Len(maps)
                records == [i \in 1 .. recs |-> InitRecord(maps[i])]
                saves == [i \in 1 .. svs |->
                            SaveCall(prefixLen, maps[i],
                                     ub = "garbled" /\ i >= o)]
            IN  /\ outcome \in Outcomes
                /\ o = 0 => outcome = "as written"
                /\ saveLog' = [canCreate |-> canCreate, good |-> TRUE,
                               prefixLen |-> prefixLen,
                               error |-> "",
                               written |-> <<ToUShort(Len(maps))>> \o records,
                               saves |-> saves, outcome |-> ub]
                /\ initfile' = [count |-> ToUShort(Len(maps)),
                                records |-> records]
  /\ ret' = Result("saveToDisk", NoMap, TRUE)
  /\ UNCHANGED <<mapObj, maps, world_map, ageIndex, sweepLog, sweepCalls,
                 prevTrue, grown, disk, exportLog, exports, itemKey,
                 itemValue, itemsf>>

\* ---------------------------------------------------- item data export
\* Strings are sequences of characters: the three the exporter escapes and
\* an ordinary one.
BS == "\\"
EQ == "="
SC == ";"
Chars == {BS, EQ, SC, "a"}

\* boost::algorithm::replace_all(str, search, format) for a search string of
\* one character: every occurrence is replaced, the replacement is not
\* searched again.
RECURSIVE replace_all(_, _, _)
replace_all(str, search, format) ==
  IF str = << >> THEN << >>
  ELSE (IF Head(str) = search THEN format ELSE <<Head(str)>>)
          \o replace_all(Tail(str), search, format)

\* The three replacements made on key and on value, in this order.
EscapeBackslashLast(str) ==
  replace_all(replace_all(replace_all(str, EQ, <<BS, EQ>>),
                          SC, <<BS, SC>>),
              BS, <<BS, BS>>)

Escape(str) ==
  replace_all(replace_all(replace_all(str, BS, <<BS, BS>>),
                          EQ, <<BS, EQ>>),
              SC, <<BS, SC>>)

\* itemsf << ";" << key << "=" << value for one data entry of an item.
ExportItemData ==
  /\ itemsf' = <<SC>> \o Escape(itemKey) \o <<EQ>> \o Escape(itemValue)
  /\ UNCHANGED <<mapObj, maps, world_map, ageIndex, ret, sweepLog,
                 sweepCalls, prevTrue, grown, disk, exportLog, exports,
                 initfile, saveLog, itemKey, itemValue>>

\* ------------------------------------------------------- specifications
\* The worlds the model starts from: the Maps are created with consecutive
\* shapes, starting at any shape, or all with the bounds of the first shape
\* (different Maps with equal bounds).
ShapeChoices ==
  { [m \in MapIds |-> ((m - 1 + r) % Len(Shapes)) + 1] : r \in 0 .. Len(Shapes) - 1 }
    \cup { [m \in MapIds |-> 1] }

Init ==
  /\ \E f \in ShapeChoices : mapObj = [m \in MapIds |-> Shapes[f[m]]]
  /\ maps = << >>
  /\ world_map = EmptyIndex
  /\ ageIndex = 0
  /\ ret = Result("init", NoMap, TRUE)
  /\ sweepLog = << >>
  /\ sweepCalls = 0
  /\ prevTrue = FALSE
  /\ grown = FALSE
  /\ IoInit

Next ==
  \/ \E newMap \in MapIds \cup {NoMap} : InsertMap(newMap)
  \/ clear
  \/ \E k \in 0 .. NumMaps : allMapsAged(k)

Spec == Init /\ [][Next]_vars

\* A registry that insertions have filled and that no call changes during
\* the sweep: the aging sweep on its own.
RECURSIVE BuildIndex(_)
BuildIndex(s) ==
  IF s = << >> THEN EmptyIndex
  ELSE WriteCells(BuildIndex(SubSeq(s, 1, Len(s) - 1)), s[Len(s)])

Registries ==
  { s \in UNION { [1 .. n -> MapIds] : n \in 0 .. NumMaps } :
      \A i, j \in DOMAIN s : i # j => s[i] # s[j] }

SweepInit ==
  /\ \E f \in ShapeChoices : mapObj = [m \in MapIds |-> Shapes[f[m]]]
  /\ maps \in Registries
  /\ world_map = BuildIndex(maps)
  /\ ageIndex = 0
  /\ ret = IF maps = << >> THEN Result("init", NoMap, TRUE)
           ELSE Result("InsertMap", maps[Len(maps)], TRUE)
  /\ sweepLog = << >>
  /\ sweepCalls = 0
  /\ prevTrue = FALSE
  /\ grown = FALSE
  /\ IoInit

SweepNext == \E k \in 0 .. NumMaps : allMapsAged(k)

SweepSpec == SweepInit /\ [][SweepNext]_vars

\* The registry on its own: InsertMap and clear calls in any order.  Aging
\* changes neither maps nor world_map, which is all the queries read.
RegistryNext ==
  \/ \E newMap \in MapIds \cup {NoMap} : InsertMap(newMap)
  \/ clear

RegistrySpec == Init /\ [][RegistryNext]_vars

\* Insertions and aging calls in any order, the registry never cleared.
NoClearNext ==
  \/ \E newMap \in MapIds \cup {NoMap} : InsertMap(newMap)
  \/ \E k \in 0 .. NumMaps : allMapsAged(k)

NoClearSpec == Init /\ [][NoClearNext]_vars

\* A call that ages at least one Map when Maps remain.  The caller calls
\* allMapsAged in every cycle, and the 10 ms of a call let it age a Map.
AgingProgress ==
  \E k \in 0 .. NumMaps : allMapsAged(k) /\ (k > 0 \/ ~MapsRemain(ageIndex))

FairSweepSpec == SweepInit /\ [][SweepNext]_vars /\ WF_vars(AgingProgress)

\* ------------------------------------------------------------ properties
\* Position p lies inside the bounds of Map m, on its level.
InBounds(m, p) ==
  /\ p[3] = mapObj[m].Z_Level
  /\ mapObj[m].Min_X <= p[1] /\ p[1] <= mapObj[m].Max_X
  /\ mapObj[m].Min_Y <= p[2] /\ p[2] <= mapObj[m].Max_Y

\* The Map registered last among those covering p, or NoMap.
LastCovering(p) ==
  LET S == { i \in 1 .. Len(maps) : InBounds(maps[i], p) }
  IN  IF S = {} THEN NoMap
      ELSE maps[CHOOSE i \in S : \A j \in S : j <= i]

\* C1: in every state reached by InsertMap and clear calls, every cell inside
\* the bounds of a registered Map has a dictionary entry, and the entry is a
\* registered Map whose bounds cover the cell on that level.
C1_CellsIndexed ==
  \A i \in 1 .. Len(maps) : \A p \in QueryPos :
     InBounds(maps[i], p) =>
        /\ p \in DOMAIN world_map
        /\ world_map[p] \in Range(maps)
        /\ InBounds(world_map[p], p)

C1_Witness ==
  /\ Len(maps) = NumMaps
  /\ ret = Result("InsertMap", maps[Len(maps)], TRUE)
  /\ \E p \in QueryPos : InBounds(maps[1], p) /\ world_map[p] # maps[1]
  /\ \E p \in QueryPos : InBounds(maps[1], p) /\ world_map[p] = maps[1]

\* C3: InsertMap of a Map that is already in the sequence returns false and
\* leaves the sequence and every dictionary entry as they were.
C3_DuplicateRejected ==
  [][ (ret'.op = "InsertMap" /\ ret'.arg \in Range(maps))
        => (ret'.val = FALSE /\ maps' = maps /\ world_map' = world_map) ]_vars

C3_Witness ==
  /\ ret.op = "InsertMap" /\ ret.val = FALSE
  /\ ret.arg \in Range(maps)
  /\ Len(maps) >= 2

\* C4: after one Map M was inserted into an empty registry, findMapForPos
\* returns M for every position inside the bounds of M and the empty result
\* (not an error) for every other position.
C4_SingleMapLookup ==
  Len(maps) = 1 =>
     \A p \in QueryPos :
        findMapForPos(p) = IF InBounds(maps[1], p) THEN maps[1] ELSE NoMap

C4_Witness ==
  /\ Len(maps) = 1
  /\ LET M == mapObj[maps[1]]
     IN /\ <<M.Min_X - 1, M.Min_Y, M.Z_Level>> \in QueryPos
        /\ findMapForPos(<<M.Min_X - 1, M.Min_Y, M.Z_Level>>) = NoMap
        /\ findMapForPos(<<M.Max_X, M.Max_Y, M.Z_Level>>) = maps[1]

\* C5: an InsertMap of a Map not yet present returns true, also when the Map
\* overlaps registered Maps; it keeps the earlier Maps in the sequence, and
\* afterwards findMapForPos returns for every cell the Map registered last
\* among those that cover it (the new Map on shared cells, the earlier Map on
\* its other cells).
C5_LastWriteWins ==
  [][ (ret'.op = "InsertMap" /\ ret'.arg \in MapIds \ Range(maps))
        => /\ ret'.val = TRUE
           /\ maps' = Append(maps, ret'.arg)
           /\ \A p \in QueryPos : (findMapForPos(p) = LastCovering(p))' ]_vars

C5_Witness ==
  /\ ret.op = "InsertMap" /\ ret.val = TRUE
  /\ \E i, j \in 1 .. Len(maps) : \E p, q \in QueryPos :
        /\ i < j /\ maps[j] = ret.arg
        /\ InBounds(maps[i], p) /\ InBounds(maps[j], p)
        /\ findMapForPos(p) = maps[j]
        /\ InBounds(maps[i], q) /\ ~InBounds(maps[j], q)
        /\ findMapForPos(q) = maps[i]

\* The number of age() invocations on Map m in the history.
Aged(m) == Cardinality({ i \in 1 .. Len(sweepLog) : sweepLog[i] = m })

\* C2: with a fixed registry and the cursor at 0, however the time budget
\* splits the work over the calls, no Map is aged more than once before a
\* call returns true, and when a call returns true every registered Map has
\* been aged exactly once.
C2_EachMapAgedOnce ==
  /\ \A i \in 1 .. Len(sweepLog) : sweepLog[i] \in Range(maps)
  /\ \A m \in Range(maps) : Aged(m) <= 1
  /\ ReturnedTrue => \A m \in Range(maps) : Aged(m) = 1

C2_Witness ==
  /\ ReturnedTrue
  /\ Len(maps) = NumMaps
  /\ sweepCalls >= 2
  /\ \A m \in MapIds : Aged(m) = 1

\* C6: a call that returns true leaves the cursor at 0, and the call that
\* immediately follows it starts with the first Map: the first Map it ages,
\* if it ages any, is maps[0].
C6_FreshSweep ==
  /\ ReturnedTrue => ageIndex = 0
  /\ (prevTrue /\ ret.op = "allMapsAged" /\ sweepLog # << >>)
        => sweepLog[1] = maps[1]

C6_Witness ==
  /\ prevTrue
  /\ ret = Result("allMapsAged", NoMap, FALSE)
  /\ Len(maps) >= 2
  /\ sweepLog = <<maps[1]>>
  /\ ageIndex = 1

\* C7: with a fixed registry of N Maps, when allMapsAged keeps being called
\* and a call that starts with Maps remaining ages at least one of them, a
\* call eventually returns true, and at most N calls of the sweep age a Map.
C7_SweepCompletes ==
  /\ [](sweepCalls <= Len(maps))
  /\ <>ReturnedTrue

C7_Witness ==
  /\ ReturnedTrue
  /\ Len(maps) = NumMaps
  /\ sweepCalls = NumMaps

RectCorners == { <<x, y, z>> : x \in {-1, 0, 2, FarX}, y \in {0, 1}, z \in {0, 1} }
Widths      == {0, 1, 2, 3, 128, 129, 300}
Heights     == {0, 1, 2, 128, 300}
Margins     == {-1, 0, 2}
Centers     == { <<x, y, z>> : x \in {0, 2, FarX}, y \in {0, 1}, z \in {0, 1} }

\* The margins that describe the rectangle of mapInRangeOf(upperLeft, w, h),
\* as findAllMapsInRangeOf receives them in its char parameters.
SameRectangle(upperLeft, w, h) ==
  mapInRangeOf(upperLeft, w, h)
     <=> (findAllMapsInRangeOf(ToChar(0), ToChar(h - 1), ToChar(w - 1),
                               ToChar(0), upperLeft) # << >>)

\* C8 as stated: for every rectangle, mapInRangeOf(upperLeft, width, height)
\* is true iff findAllMapsInRangeOf(0, height-1, width-1, 0, upperLeft) is
\* not empty.
C8_AnyRectangle ==
  \A c \in RectCorners : \A w \in Widths : \A h \in Heights :
     SameRectangle(c, w, h)

\* C8 amended: the equivalence holds for the rectangles whose width-1 and
\* height-1 fit a char margin, 1 <= width <= 128 and 1 <= height <= 128.
C8_CharRectangle ==
  \A c \in RectCorners :
     \A w \in Widths \cap (1 .. 2^(CharBits - 1)) :
        \A h \in Heights \cap (1 .. 2^(CharBits - 1)) :
           SameRectangle(c, w, h)

C8_Witness ==
  /\ Len(maps) >= 2
  /\ mapInRangeOf(<<0, 0, 0>>, 2^(CharBits - 1), 1)
  /\ Len(findAllMapsInRangeOf(0, 0, 2^(CharBits - 1) - 1, 0, <<0, 0, 0>>)) >= 2
  /\ ~mapInRangeOf(<<2, 1, 0>>, 2^(CharBits - 1), 1)
  /\ findAllMapsInRangeOf(0, 0, 2^(CharBits - 1) - 1, 0, <<2, 1, 0>>) = << >>

\* C9: findAllMapsInRangeOf returns the registered Maps that meet the
\* rectangle [center - (west, north), center + (east, south)] on the level of
\* center, each once and in registration order: the sequence of registered
\* Maps filtered by the intersection test.
C9_FilteredInOrder ==
  \A c \in Centers : \A n, s, e, w \in Margins :
     LET result == findAllMapsInRangeOf(n, s, e, w, c)
         Meets(m) == intersects(m, <<c[1] - w, c[2] - n>>,
                                   <<c[1] + e, c[2] + s>>, c[3])
         Rectangle == { p \in QueryPos :
                          /\ p[3] = c[3]
                          /\ c[1] - w <= p[1] /\ p[1] <= c[1] + e
                          /\ c[2] - n <= p[2] /\ p[2] <= c[2] + s }
     IN /\ result = SelectSeq(maps, Meets)
        /\ \A i, j \in 1 .. Len(result) : i # j => result[i] # result[j]
        /\ (n >= 0 /\ s >= 0 /\ e >= 0 /\ w >= 0) =>
              \A m \in Range(maps) :
                 m \in Range(result) <=> \E p \in Rectangle : InBounds(m, p)

C9_Witness ==
  /\ Len(maps) = NumMaps
  /\ LET result == findAllMapsInRangeOf(0, 0, 2, 0, <<0, 0, 0>>)
     IN /\ Len(result) >= 2
        /\ Len(result) < Len(maps)
        /\ result[1] # maps[1]

\* C14: after clear() the sequence and the dictionary are empty, whatever
\* was inserted before: findMapForPos returns the empty result for every
\* position, mapInRangeOf is false and findAllMapsInRangeOf is empty for
\* every rectangle.
C14_ClearEmpties ==
  ret.op = "clear" =>
     /\ maps = << >>
     /\ DOMAIN world_map = {}
     /\ \A p \in QueryPos : findMapForPos(p) = NoMap
     /\ \A c \in RectCorners : \A w \in Widths : \A h \in Heights :
           ~mapInRangeOf(c, w, h)
     /\ \A c \in Centers : \A n, s, e, w \in Margins :
           findAllMapsInRangeOf(n, s, e, w, c) = << >>

C14_Witness ==
  /\ ret.op = "clear"
  /\ ageIndex = NumMaps - 1
  /\ findMapForPos(<<0, 0, 0>>) = NoMap

\* C16: an InsertMap of a Map not yet present returns true and appends the
\* Map at the end of the sequence; every InsertMap leaves the elements that
\* were there in place; and no Map is in the sequence twice.
C16_AppendOnly ==
  /\ [](\A i, j \in 1 .. Len(maps) : i # j => maps[i] # maps[j])
  /\ [][ ret'.op = "InsertMap" =>
           /\ Len(maps') >= Len(maps)
           /\ SubSeq(maps', 1, Len(maps)) = maps
           /\ (ret'.arg \in MapIds \ Range(maps)) =>
                 /\ ret'.val = TRUE
                 /\ Len(maps') = Len(maps) + 1
                 /\ maps'[Len(maps')] = ret'.arg ]_vars

C16_Witness ==
  /\ ret.op = "InsertMap" /\ ret.val = TRUE
  /\ Len(maps) = NumMaps
  /\ maps[Len(maps)] = ret.arg
  /\ maps[1] > maps[2]

\* C17 as stated: between calls the aging cursor is a position of the
\* sequence, 0 <= ageIndex <= maps.size(), also after a clear() in the middle
\* of a sweep.
C17_CursorInRange == 0 <= ageIndex /\ ageIndex <= Len(maps)

\* C18 as stated: when allMapsAged returns true, every registered Map has
\* been aged since it was inserted, also when clear() was called during a
\* sweep and Maps were inserted again.
C18_TrueMeansComplete ==
  ReturnedTrue => \A m \in Range(maps) : Aged(m) >= 1

\* C19: when InsertMap and allMapsAged calls interleave in any way (no
\* clear), also with insertions during a sweep, no Map is aged twice between
\* two true returns, and at a true return every Map registered at that moment
\* has been aged exactly once since the previous one.
C19_InsertDuringSweep ==
  /\ \A i, j \in 1 .. Len(sweepLog) : i # j => sweepLog[i] # sweepLog[j]
  /\ ReturnedTrue =>
        /\ Range(sweepLog) = Range(maps)
        /\ Len(sweepLog) = Len(maps)

C19_Witness ==
  /\ ReturnedTrue
  /\ grown
  /\ sweepCalls >= 2
  /\ Len(maps) = NumMaps

\* C20: the dictionary has no stale or stray entry: an entry at p is a
\* registered Map on the level of p whose bounds contain p, and
\* findMapForPos(p) is not empty iff some registered Map covers p.
C20_NoStrayEntries ==
  /\ \A p \in DOMAIN world_map :
        /\ world_map[p] \in Range(maps)
        /\ InBounds(world_map[p], p)
  /\ \A p \in QueryPos \cup DOMAIN world_map :
        (findMapForPos(p) # NoMap) <=> (\E m \in Range(maps) : InBounds(m, p))

C20_Witness ==
  /\ Len(maps) >= 2
  /\ ret.op = "InsertMap"
  /\ \E p \in QueryPos : findMapForPos(p) = maps[1]
  /\ \E p \in QueryPos :
        /\ findMapForPos(p) = NoMap
        /\ p[1] = mapObj[maps[1]].Max_X + 1
        /\ p[2] = mapObj[maps[1]].Min_Y
        /\ p[3] = mapObj[maps[1]].Z_Level

\* The item exporter on the data entries of an item: any key and value.
Strings == UNION { [1 .. n -> Chars] : n \in 0 .. MaxLen }

EscapeInit ==
  /\ mapObj = [m \in MapIds |-> Shapes[1]]
  /\ maps = << >>
  /\ world_map = EmptyIndex
  /\ ageIndex = 0
  /\ ret = Result("init", NoMap, TRUE)
  /\ sweepLog = << >>
  /\ sweepCalls = 0
  /\ prevTrue = FALSE
  /\ grown = FALSE
  /\ disk = [n \in {} |-> NoFile]
  /\ exportLog = << >>
  /\ exports = 0
  /\ initfile = NoFile
  /\ saveLog = << >>
  /\ itemKey \in Strings
  /\ itemValue \in Strings
  /\ itemsf = << >>

EscapeNext == ExportItemData

EscapeSpec == EscapeInit /\ [][EscapeNext]_vars

\* Reading an exported line back: a backslash makes the next character a
\* literal one, a bare '=' or ';' is a separator; a backslash at the end or
\* before an ordinary character belongs to no escape sequence.
RECURSIVE Tokens(_)
Tokens(s) ==
  IF s = << >> THEN << >>
  ELSE IF s[1] = BS
         THEN IF Len(s) >= 2 /\ s[2] \in {BS, EQ, SC}
                THEN <<[c |-> s[2], sep |-> FALSE]>>
                        \o Tokens(SubSeq(s, 3, Len(s)))
                ELSE <<[c |-> "unpaired", sep |-> FALSE]>> \o Tokens(Tail(s))
         ELSE <<[c |-> s[1], sep |-> s[1] \in {EQ, SC}]>> \o Tokens(Tail(s))

Literal(t) == [i \in 1 .. Len(t) |-> t[i].c]

\* C15: the escaping of the item exporter is reversible: in the output of a
\* key or a value every '=' and ';' follows an escaping backslash and no
\* backslash is unpaired, and reading the written entry back yields the key
\* and the value (so different inputs give different outputs).
C15_EscapeRoundTrip ==
  /\ \A str \in {itemKey, itemValue} :
        LET t == Tokens(Escape(str))
        IN /\ \A i \in 1 .. Len(t) : ~t[i].sep /\ t[i].c # "unpaired"
           /\ Literal(t) = str
  /\ itemsf # << >> =>
        LET t == Tokens(itemsf)
            seps == { i \in 1 .. Len(t) : t[i].sep }
            eq == 2 + Len(itemKey)
        IN /\ \A i \in 1 .. Len(t) : t[i].c # "unpaired"
           /\ seps = {1, eq}
           /\ t[1].c = SC /\ t[eq].c = EQ
           /\ Literal(SubSeq(t, 2, eq - 1)) = itemKey
           /\ Literal(SubSeq(t, eq + 1, Len(t))) = itemValue

C15_Witness ==
  /\ itemKey = <<"a", EQ, SC>>
  /\ itemValue = <<BS, "a">>
  /\ itemsf = <<SC, "a", BS, EQ, BS, SC, EQ, BS, BS, "a">>

\* exportTo on a registry that insertions have filled; the file system
\* decides for every stream whether it opens.
\* exportTo on a registry that insertions have filled. The file system lets
\* every stream open, or refuses some streams of one Map: the loop returns at
\* the first Map with a failed stream, so the streams of the Maps behind it
\* are never asked for.
ExportNext ==
  \E k \in 1 .. Len(maps) + 1 : \E good \in SUBSET KindSet :
     /\ (good = KindSet) <=> (k = Len(maps) + 1)
     /\ exportTo([i \in 1 .. Len(maps) |-> IF i = k THEN good ELSE KindSet])

ExportSpec == SweepInit /\ [][ExportNext]_vars

\* The index of the first Map one of whose streams did not open in the last
\* exportTo, Len(maps) + 1 when all opened.
FirstFailed ==
  LET F == { i \in 1 .. Len(maps) :
               \E n \in 1 .. Len(exportLog) :
                  /\ exportLog[n].ev = "open" /\ exportLog[n].i = i
                  /\ ~exportLog[n].good }
  IN  IF F = {} THEN Len(maps) + 1 ELSE CHOOSE i \in F : \A j \in F : i <= j

Written(i, kind) ==
  \E n \in 1 .. Len(exportLog) :
     exportLog[n].ev = "write" /\ exportLog[n].i = i /\ exportLog[n].kind = kind

OnDisk(i, kind) ==
  /\ FileName(maps[i], kind) \in DOMAIN disk
  /\ disk[FileName(maps[i], kind)] = Content(maps[i], kind)

\* What C11 says of an exportTo whose first failing Map is the k-th, apart
\* from the files of the earlier Maps remaining.
ExportStopsAtFailure(k) ==
  /\ ret.val = (k = Len(maps) + 1)
  /\ \A j \in 1 .. k - 1 : \A kind \in KindSet : Written(j, kind)
  /\ \A n \in 1 .. Len(exportLog) :
        /\ exportLog[n].i <= k
        /\ exportLog[n].i = k => (k <= Len(maps) /\ exportLog[n].ev = "open")

\* C11 as stated: when a stream of the k-th Map cannot be opened, exportTo
\* returns false at once; the artifacts of the Maps before the k-th are fully
\* written and remain, nothing is written for the k-th Map, and no file of a
\* later Map is opened or written; exportTo returns true only if every stream
\* of every Map opened.
C11_EarlierArtifactsRemain ==
  ret.op = "exportTo" =>
     /\ ExportStopsAtFailure(FirstFailed)
     /\ \A j \in 1 .. FirstFailed - 1 : \A kind \in KindSet : OnDisk(j, kind)

\* C11 amended: the artifacts of an earlier Map remain unless a later Map up
\* to the k-th has the same minX, minY and z-level, hence the same file names.
C11_ArtifactsRemainUnlessSameName ==
  ret.op = "exportTo" =>
     /\ ExportStopsAtFailure(FirstFailed)
     /\ \A j \in 1 .. FirstFailed - 1 : \A kind \in KindSet :
           (\A l \in (j + 1) .. FirstFailed :
               l <= Len(maps) =>
                  FileName(maps[l], kind) # FileName(maps[j], kind))
              => OnDisk(j, kind)

C11_Witness ==
  /\ ret = Result("exportTo", NoMap, FALSE)
  /\ Len(maps) = NumMaps
  /\ FirstFailed = 2
  /\ \A kind \in KindSet : OnDisk(1, kind)
  /\ FileName(maps[2], "tiles") \in DOMAIN disk
  /\ disk[FileName(maps[2], "tiles")] = EmptyFile
  /\ FileName(maps[2], "items") \notin DOMAIN disk
  /\ \A kind \in KindSet : FileName(maps[3], kind) \notin DOMAIN disk

\* saveToDisk on a registry that insertions have filled; the file system
\* decides whether the index file can be created, the caller chooses the
\* prefix: a short one, the longest whose names fit mname, and one longer.
PrefixLens ==
  {1, MnameSize - 3 * (FieldWidth + 1) - 1, MnameSize - 3 * (FieldWidth + 1)}

SaveNext ==
  \E canCreate \in BOOLEAN : \E prefixLen \in PrefixLens :
     \E outcome \in Outcomes : saveToDisk(canCreate, prefixLen, outcome)

SaveSpec == SweepInit /\ [][SaveNext]_vars

\* C12: when the index file cannot be created, saveToDisk writes nothing: no
\* count, no record, no Save call for any Map; the index file and the
\* registry are as before, and the call returns as a successful one does.
C12_FailureWritesNothing ==
  [][ (ret'.op = "saveToDisk" /\ ~saveLog'.canCreate) =>
        /\ ~saveLog'.good
        /\ saveLog'.written = << >>
        /\ saveLog'.saves = << >>
        /\ initfile' = initfile
        /\ UNCHANGED <<maps, world_map, ageIndex>>
        /\ ret' = Result("saveToDisk", NoMap, TRUE) ]_vars

C12_Witness ==
  /\ ret.op = "saveToDisk"
  /\ ~saveLog.canCreate
  /\ ~saveLog.good
  /\ saveLog.error = "Could not create initmaps!"
  /\ Len(maps) = NumMaps
  /\ initfile = NoFile

\* C13 as stated: saveToDisk on a registry of N Maps writes the count N
\* modulo 2^16, then N records in registration order, the i-th with the
\* z-level, minX, minY, width and height of the i-th Map, and calls Save once
\* per Map in the same order.
C13_CountRecordsSaves ==
  (ret.op = "saveToDisk" /\ saveLog.good) =>
     /\ initfile.count = Len(maps) % 2^16
     /\ Len(initfile.records) = Len(maps)
     /\ \A i \in 1 .. Len(maps) :
           /\ initfile.records[i].Z_Level = mapObj[maps[i]].Z_Level
           /\ initfile.records[i].Min_X = mapObj[maps[i]].Min_X
           /\ initfile.records[i].Min_Y = mapObj[maps[i]].Min_Y
           /\ initfile.records[i].Width = mapObj[maps[i]].Width
           /\ initfile.records[i].Height = mapObj[maps[i]].Height
     /\ Len(saveLog.saves) = Len(maps)
     /\ \A i \in 1 .. Len(maps) : saveLog.saves[i].map = maps[i]

=============================================================================
